---- MODULE Spec2Model ----
(***************************************************************************)
(* A model of OtherResources/framer.py: the request loop (mainloop,        *)
(* handle and the ten verb handlers), the read pump of every spawned       *)
(* child (Process.read_forever with the monitor_process callback), the     *)
(* background autopoll task, the process monitor (poll, procmon_parse)     *)
(* and the shutdown of the event loop.                                     *)
(*                                                                         *)
(* The program is single-threaded asyncio: a task runs without             *)
(* interruption from one suspension point (an await that really blocks)    *)
(* to the next.  Every action below is one such run of one task.           *)
(***************************************************************************)
EXTENDS Integers, Sequences, FiniteSets, TLC

\* ------------------------------------------------------------------ bounds
MaxReq == 3        \* requests read from stdin in one run
MaxProcs == 1      \* children spawned in one run (their pids are 1..MaxProcs)
MaxChunks == 1     \* non-empty reads a pump makes from one child
MaxMonReq == 4     \* requests read in a run of process monitoring only
MaxLines == 4      \* lines read in a run of mainloop alone
MaxLineLen == 2    \* characters of a line

\* --------------------------------------------------------- program constants
READ_SIZE == 256   \* reader.read(256)
WRAP == 128        \* base64 payload is cut in parts of 128 characters
SIGTERM == 15
SIGKILL == 9
FAIL_EXIT == 255   \* sys.exit(-1), as the parent sees it

NoneRC == -1000    \* Process.__return_code is None
NoId == 0          \* a line that carries no identifier

\* ------------------------------------------------------------ request input
\* An argument line, by the outcome of the two conversions the handlers make
\* of it: int(arg) (isint, n) and base64.b64decode(arg) (b64).
PidArgs == 1..2
PidTok(p) == [isint |-> TRUE, n |-> p, b64 |-> FALSE]
JunkTok == [isint |-> FALSE, n |-> 0, b64 |-> FALSE]
TextTok == [isint |-> FALSE, n |-> 0, b64 |-> TRUE]

PidArgLists == {<<>>, <<JunkTok>>} \cup {<<PidTok(p)>> : p \in PidArgs}
SendArgLists ==
    {<<>>, <<JunkTok, TextTok>>}
        \cup {<<PidTok(p)>> : p \in PidArgs}
        \cup {<<PidTok(p), TextTok>> : p \in PidArgs}
        \cup {<<PidTok(p), JunkTok>> : p \in PidArgs}
SpawnArgLists == {<<>>, <<TextTok>>}

Verbs == {"run", "login", "send", "kill", "quit", "register", "deregister",
          "poll", "reset", "autopoll"}

\* ------------------------------------------------------------ the ps table
\* One line of `ps -eo pid,ppid,stat,lstart,command`.  pid = 0 is a line the
\* regular expression does not match (the header); cmd in parentheses is a
\* defunct entry.
\* The command is its sequence of characters.
PsLine(pid, ppid, stat, cmd) == [pid |-> pid, ppid |-> ppid, stat |-> stat, cmd |-> cmd]
Header == PsLine(0, 0, 0, <<"C">>)
NoRow == PsLine(0, 0, 0, <<>>)
Tables ==
    { <<Header>>,
      <<Header, PsLine(1, 0, 1, <<"s", "h">>), PsLine(2, 1, 1, <<"c">>)>>,
      <<Header, PsLine(1, 0, 2, <<"s", "h">>), PsLine(2, 1, 1, <<"(", "c", ")">>),
        PsLine(3, 1, 1, <<"c">>)>>,
      <<Header, PsLine(1, 1, 1, <<"s", "h">>)>> }

\* ----------------------------------------------------------- outbound lines
\* k is the kind of line (its first word); a line that is only a number (the
\* pid payload of run and login) has kind "pid", a base64 part kind "data" with
\* its length as v.
Line(k, id, pid, v) ==
    [k |-> k, id |-> id, pid |-> pid, v |-> v, txt |-> "", row |-> NoRow]
RowLine(k, row) ==
    [k |-> k, id |-> NoId, pid |-> row.pid, v |-> 0, txt |-> "", row |-> row]
AbortLine(reason) ==
    [k |-> "abort", id |-> NoId, pid |-> 0, v |-> 0, txt |-> reason, row |-> NoRow]

VARIABLES
    pc,            \* where the main task (mainloop/handle/handler) is suspended
    cur,           \* the request being handled: [cmd, id, args], with what
                   \* the claims need to know of it (see Request)
    stdin,         \* requests (or lines) the client has still to write
    mlArgs,        \* mainloop's args: the arguments of the lines read so far
    host,          \* the process table of the host, as the ps processes see it
    nreq,          \* requests read so far
    nextId,        \* identifiers drawn so far (random.randint, taken distinct)
    out,           \* stdout: the lines printed so far
    resp,          \* the lines the main task has printed for request cur
    exitStatus,    \* NoneRC while the agent runs, then its exit status
    QUITTING,
    PROCESSES,     \* the pids that are keys of PROCESSES
    COMPLETED,
    TASKS,
    REGISTERED,
    LASTPS,        \* the snapshot: a set of rows, one per pid
    AUTOPOLL,
    AUTOPOLL_TASK, \* "None" or "task"
    apc,           \* where the autopoll task is suspended
    apCreated,     \* create_task(autopoll(1.0)) calls so far
    nspawned,      \* children spawned so far
    proc,          \* per pid: the Process object and its read pump
    child          \* per pid: NoneRC while the child runs, then its exit status

vars == <<pc, cur, stdin, mlArgs, host, nreq, nextId, out, resp, exitStatus, QUITTING, PROCESSES,
          COMPLETED, TASKS, REGISTERED, LASTPS, AUTOPOLL, AUTOPOLL_TASK, apc,
          apCreated, nspawned, proc, child>>

Pids == 1..MaxProcs

NoProc == [ident |-> NoId, islogin |-> FALSE, rc |-> NoneRC, writer |-> "none",
           pump |-> "none", chunks |-> 0, written |-> 0, signals |-> <<>>,
           cleanups |-> 0]
NoReq == [cmd |-> "", id |-> NoId, args |-> <<>>, ps |-> "none", R0 |-> <<>>,
          table |-> <<>>, steady |-> FALSE, prevPoll |-> <<>>, fresh |-> FALSE,
          lines |-> <<>>]

\* table: what the last ps started has printed or will print; changed: whether
\* a ps of the autopoll task has seen another table than the ps before it,
\* since the last poll request; ap: what the ps of the autopoll task, if one
\* is running, will print.
NoHost == [table |-> <<>>, changed |-> FALSE, ap |-> <<>>]

\* The agent after construction, with n requests to come.
Boot(n) ==
    /\ pc = "read"
    /\ cur = NoReq
    /\ stdin = n
    /\ mlArgs = <<>>
    /\ host = NoHost
    /\ nreq = 0
    /\ nextId = 0
    /\ out = <<>>
    /\ resp = <<>>
    /\ exitStatus = NoneRC
    /\ QUITTING = FALSE
    /\ PROCESSES = {}
    /\ COMPLETED = <<>>
    /\ TASKS = <<>>
    /\ REGISTERED = <<>>
    /\ LASTPS = {}
    /\ AUTOPOLL = 0
    /\ AUTOPOLL_TASK = "None"
    /\ apc = "none"
    /\ apCreated = 0
    /\ nspawned = 0
    /\ proc = [p \in Pids |-> NoProc]
    /\ child = [p \in Pids |-> NoneRC]

Init == Boot(MaxReq)

\* ------------------------------------------------------------------ output
\* send without the test of QUITTING.
sendUnsquelched(o, text) == Append(o, text)

\* send(text): print the line unless QUITTING.
send(o, text) == IF QUITTING THEN o ELSE Append(o, text)

RECURSIVE sendAll(_, _)
sendAll(o, lines) ==
    IF lines = <<>> THEN o ELSE sendAll(send(o, Head(lines)), Tail(lines))

begin(o, identifier) == send(o, Line("begin", identifier, 0, 0))
end(o, identifier, status) == send(o, Line("end", identifier, 0, status))

\* base64.b64encode(data): the length of the encoding of n bytes.
B64Len(n) == 4 * ((n + 2) \div 3)

Min(a, b) == IF a < b THEN a ELSE b

\* The parts encoded[i:i+n] for i in range(0, len(encoded), n).
Parts(enc) ==
    [i \in 1..((enc + WRAP - 1) \div WRAP) |->
        Line("data", NoId, 0, Min(WRAP, enc - (i - 1) * WRAP))]

print_output(o, identifier, pid, channel, islogin, n) ==
    LET o1 == send(o, Line("%output", identifier, pid, IF islogin THEN -1 ELSE channel))
        o2 == sendAll(o1, Parts(B64Len(n)))
    IN  send(o2, Line("%end", identifier, 0, 0))

\* ------------------------------------------------------- process monitoring
\* register without the test of membership.
registerAlways(R, pid) == Append(R, pid)

\* register(pid), deregister(pid) on the list REGISTERED.
register(R, pid) ==
    IF \E i \in 1..Len(R) : R[i] = pid THEN R ELSE Append(R, pid)

\* list.remove: the first occurrence is removed.
deregister(R, pid) ==
    IF \E i \in 1..Len(R) : R[i] = pid
    THEN LET i == CHOOSE j \in 1..Len(R) :
                      R[j] = pid /\ \A m \in 1..(j - 1) : R[m] # pid
         IN  SubSeq(R, 1, i - 1) \o SubSeq(R, i + 1, Len(R))
    ELSE R

\* parse(line): None for a line the pattern does not match.
Matches(line) == line.pid # 0

\* row[4].startswith("(") and row[4].endswith(")")
Defunct(row) ==
    /\ row.cmd # <<>>
    /\ Head(row.cmd) = "("
    /\ row.cmd[Len(row.cmd)] = ")"

\* The rows the first loop of procmon_parse keeps, in the order of the output.
ValidRows(table) == SelectSeq(table, LAMBDA l : Matches(l) /\ ~Defunct(l))

\* index[pid]: the last row of that pid.
InIndex(rows, pid) == \E i \in 1..Len(rows) : rows[i].pid = pid
Index(rows, pid) ==
    rows[CHOOSE i \in 1..Len(rows) :
            rows[i].pid = pid /\ \A j \in (i + 1)..Len(rows) : rows[j].pid # pid]

\* children.get(pid, []): the pids of the rows whose ppid is pid, in order.
RECURSIVE Children(_, _)
Children(rows, pid) ==
    IF rows = <<>> THEN <<>>
    ELSE (IF Head(rows).ppid = pid THEN <<Head(rows).pid>> ELSE <<>>)
             \o Children(Tail(rows), pid)

\* The interpreter's recursion limit is far above the depth of any tree of the
\* tables modelled here; a chain without a cycle is no deeper than the table.
RecursionLimit(rows) == Len(rows) + 1

\* results[pid] = index[pid] on the insertion-ordered dict results, kept as the
\* sequence of its keys.
SetKey(keys, pid) ==
    IF \E i \in 1..Len(keys) : keys[i] = pid THEN keys ELSE Append(keys, pid)

\* add(pid), with the depth of the call: [ok, keys]; ok is FALSE when the
\* recursion limit is hit (RecursionError).
RECURSIVE add(_, _, _, _)
RECURSIVE addEach(_, _, _, _)
add(rows, pid, res, depth) ==
    IF ~res.ok THEN res
    ELSE IF depth > RecursionLimit(rows) THEN [ok |-> FALSE, keys |-> res.keys]
    ELSE addEach(rows, Children(rows, pid),
                 [ok |-> TRUE, keys |-> SetKey(res.keys, pid)], depth + 1)
addEach(rows, kids, res, depth) ==
    IF kids = <<>> \/ ~res.ok THEN res
    ELSE addEach(rows, Tail(kids), add(rows, Head(kids), res, depth), depth)

\* for pid in REGISTERED: if str(pid) in index: add(str(pid))
RECURSIVE addRegistered(_, _, _)
addRegistered(rows, R, res) ==
    IF R = <<>> \/ ~res.ok THEN res
    ELSE addRegistered(rows, Tail(R),
                       IF InIndex(rows, Head(R)) THEN add(rows, Head(R), res, 1)
                       ELSE res)

Results(table, R) == addRegistered(ValidRows(table), R, [ok |-> TRUE, keys |-> <<>>])

\* dict(results) as the set of its rows.
Snapshot(table, keys) == {Index(ValidRows(table), keys[i]) : i \in 1..Len(keys)}

Keys(snapshot) == {r.pid : r \in snapshot}
RowOf(snapshot, pid) == CHOOSE r \in snapshot : r.pid = pid

\* The orders in which a Python set may be iterated.
Orders(S) ==
    {s \in [1..Cardinality(S) -> S] : \A i, j \in 1..Cardinality(S) : s[i] = s[j] => i = j}

\* diff() without the comparison of the rows: an edit for every pid that is
\* in both snapshots.
diffNoCompare(table, keys, last, addOrder, remOrder) ==
    LET cur_ == Snapshot(table, keys)
        edits == SelectSeq(keys, LAMBDA pid : pid \in Keys(last))
    IN  [i \in 1..Len(addOrder) |-> RowLine("+", RowOf(cur_, addOrder[i]))]
        \o [i \in 1..Len(remOrder) |-> Line("-", NoId, remOrder[i], 0)]
        \o [i \in 1..Len(edits) |-> RowLine("~", RowOf(cur_, edits[i]))]

\* diff(): additions and removals in the iteration order of the two set
\* differences, edits in the order of results.
diff(table, keys, last, addOrder, remOrder) ==
    LET cur_ == Snapshot(table, keys)
        edits == SelectSeq(keys, LAMBDA pid :
                     pid \in Keys(last) /\ RowOf(cur_, pid) # RowOf(last, pid))
    IN  [i \in 1..Len(addOrder) |-> RowLine("+", RowOf(cur_, addOrder[i]))]
        \o [i \in 1..Len(remOrder) |-> Line("-", NoId, remOrder[i], 0)]
        \o [i \in 1..Len(edits) |-> RowLine("~", RowOf(cur_, edits[i]))]

\* --------------------------------------------------------------- the agent
monVars == <<REGISTERED, LASTPS>>
apVars == <<AUTOPOLL, AUTOPOLL_TASK, apc, apCreated>>
procVars == <<PROCESSES, nspawned, proc, child>>

\* asyncio.run, once the main task has ended: every task still pending is
\* cancelled and takes CancelledError at the await it is suspended in.
CancelPumps(pr) ==
    [p \in Pids |->
        IF pr[p].pump \in {"reading", "waiting"}
        THEN [pr[p] EXCEPT !.pump = "cancelled"] ELSE pr[p]]
CancelAutopoll(a) ==
    IF a \in {"created", "polling", "sleep", "paused", "cancelling"}
    THEN "cancelled" ELSE a

\* Whether a request that follows request c comes after a reset request with
\* no poll or autopoll request between the two.
Fresh(c) ==
    IF c.cmd = "reset" THEN TRUE
    ELSE IF c.cmd \in {"poll", "autopoll"} THEN FALSE
    ELSE c.fresh

\* mainloop reads the lines of one request and calls handle(args); handle
\* takes the verb off the arguments and draws the identifier.  Kept with the
\* request: R0, REGISTERED as the request finds it; table, what the ps of a
\* poll request prints; steady, whether that is the table the ps of the poll
\* request before it printed, no ps between the two having seen another;
\* prevPoll, the table of the request before this one if that was a poll that
\* returned a diff; fresh, see Fresh; lines, the lines read for the request
\* where mainloop is modelled line by line (see ReadLine).
Request(cmd, args, table, steady) ==
    /\ pc = "read"
    /\ stdin > 0
    /\ stdin' = stdin - 1
    /\ UNCHANGED mlArgs
    /\ nreq' = nreq + 1
    /\ nextId' = nextId + 1
    /\ cur' = [cmd |-> cmd, id |-> nextId + 1, args |-> args, ps |-> "none",
               R0 |-> REGISTERED, table |-> table, steady |-> steady,
               prevPoll |-> IF cur.cmd = "poll" /\ cur.ps = "ok"
                            THEN cur.table ELSE <<>>,
               fresh |-> Fresh(cur), lines |-> <<>>]

Dispatch(cmd, args) ==
    /\ Request(cmd, args, <<>>, FALSE)
    /\ UNCHANGED host

\* fail without the sys.exit: the abort line, and the request loop goes on.
failNoExit(reason) ==
    /\ out' = send(out, AbortLine(reason))
    /\ resp' = send(<<>>, AbortLine(reason))
    /\ pc' = "read"
    /\ UNCHANGED <<exitStatus, proc, apc, QUITTING, PROCESSES, COMPLETED, TASKS,
                   REGISTERED, LASTPS, AUTOPOLL, AUTOPOLL_TASK, apCreated,
                   nspawned, child>>

\* fail(reason): the abort line, then sys.exit(-1); SystemExit passes every
\* `except Exception` and ends the event loop at once.
fail(reason) ==
    /\ out' = send(out, AbortLine(reason))
    /\ resp' = send(<<>>, AbortLine(reason))
    /\ pc' = "exited"
    /\ exitStatus' = FAIL_EXIT
    /\ proc' = CancelPumps(proc)
    /\ apc' = CancelAutopoll(apc)
    /\ UNCHANGED <<QUITTING, PROCESSES, COMPLETED, TASKS, REGISTERED, LASTPS,
                   AUTOPOLL, AUTOPOLL_TASK, apCreated, nspawned, child>>

\* What QUITTING is after the handler has returned should_quit.
SetQuitting(should_quit) == IF should_quit THEN TRUE ELSE QUITTING

\* The rest of handle without the loop that awaits TASKS.
ReturnNoAwait(should_quit) ==
    /\ QUITTING' = SetQuitting(should_quit)
    /\ COMPLETED' = <<>>
    /\ UNCHANGED TASKS
    /\ pc' = IF should_quit THEN "returned" ELSE "read"
    /\ UNCHANGED exitStatus

\* The rest of handle after the handler has returned or raised: QUITTING,
\* cleanup() (which finds COMPLETED empty: see CompletedDrained), the TASKS
\* loop (every task in it is done: see TasksDone), and mainloop's test of the
\* returned value.
Return(should_quit) ==
    /\ QUITTING' = SetQuitting(should_quit)
    /\ COMPLETED' = <<>>
    /\ TASKS' = <<>>
    /\ pc' = IF should_quit THEN "returned" ELSE "read"
    /\ UNCHANGED exitStatus

\* handle([]): a blank line with no argument before it.
HandleEmpty ==
    /\ pc = "read"
    /\ stdin > 0
    /\ stdin' = stdin - 1
    /\ UNCHANGED mlArgs
    /\ nreq' = nreq + 1
    /\ cur' = [NoReq EXCEPT !.fresh = Fresh(cur)]
    /\ resp' = <<>>
    /\ UNCHANGED <<pc, host, nextId, out, exitStatus, QUITTING, COMPLETED, TASKS>>
    /\ UNCHANGED <<monVars, apVars, procVars>>

\* cmd not in HANDLERS
HandleUnknown ==
    /\ Dispatch("frobnicate", <<>>)
    /\ fail("unrecognized command")

\* handle_run and handle_login up to the await of the spawn.  With no argument
\* args[0] raises IndexError: handle_run logs it and fails on the unbound
\* proc, handle_login lets it out; handle logs the exception either way.
HandleSpawn(cmd, args) ==
    /\ Dispatch(cmd, args)
    /\ resp' = <<>>
    /\ IF Len(args) = 0
       THEN Return(FALSE)
       ELSE /\ pc' = "spawn"
            /\ UNCHANGED <<QUITTING, COMPLETED, TASKS, exitStatus>>
    /\ UNCHANGED <<out, monVars, apVars, procVars>>

HandleRun == \E args \in SpawnArgLists : HandleSpawn("run", args)
HandleLogin == \E args \in SpawnArgLists : HandleSpawn("login", args)

\* The spawn succeeded: PROCESSES[proc.pid] = proc, begin, the pid, end,
\* handle_read creates the read pump.
SpawnOk ==
    /\ pc = "spawn"
    /\ nspawned < MaxProcs
    /\ LET pid == nspawned + 1
           o1 == begin(out, cur.id)
           o2 == send(o1, Line("pid", NoId, pid, 0))
           r1 == begin(resp, cur.id)
           r2 == send(r1, Line("pid", NoId, pid, 0))
       IN  /\ nspawned' = pid
           /\ PROCESSES' = PROCESSES \cup {pid}
           /\ proc' = [proc EXCEPT ![pid] =
                          [NoProc EXCEPT !.ident = cur.id,
                                         !.islogin = (cur.cmd = "login"),
                                         !.writer = "open",
                                         !.pump = "reading"]]
           /\ out' = end(o2, cur.id, 0)
           /\ resp' = end(r2, cur.id, 0)
    /\ Return(FALSE)
    /\ UNCHANGED <<cur, stdin, mlArgs, host, nreq, nextId, child, monVars, apVars>>

\* The spawn raised: run_tty and handle_run log it and go on to use proc,
\* which is unbound; handle logs the UnboundLocalError.
SpawnFail ==
    /\ pc = "spawn"
    /\ Return(FALSE)
    /\ UNCHANGED <<cur, stdin, mlArgs, host, nreq, nextId, out, resp, monVars, apVars,
                   procVars>>

\* handle_send
HandleSend ==
    \E args \in SendArgLists :
        /\ Dispatch("send", args)
        /\ IF Len(args) < 2
           THEN fail("not enough arguments")
           ELSE IF ~args[1].isint \/ ~args[2].b64
           THEN fail("exception decoding argument")
           ELSE LET pid == args[1].n
                    id == nextId + 1
                    known == pid \in PROCESSES
                IN  /\ proc' = IF known
                               THEN [proc EXCEPT ![pid].written = @ + 1]
                               ELSE proc
                    /\ out' = end(begin(out, id), id, IF known THEN 0 ELSE 1)
                    /\ resp' = end(begin(<<>>, id), id, IF known THEN 0 ELSE 1)
                    /\ Return(FALSE)
                    /\ UNCHANGED <<PROCESSES, nspawned, child, monVars, apVars>>

\* The lines handle_kill prints for a pid that is not in PROCESSES: begin,
\* then the call of error(), a name the module does not define; handle logs
\* the NameError.
KillUnknown(o, identifier) == begin(o, identifier)

\* handle_kill.  send_signal raises ProcessLookupError once the child has
\* exited; handle logs it.
HandleKill ==
    \E args \in PidArgLists :
        /\ Dispatch("kill", args)
        /\ IF Len(args) = 0 \/ ~args[1].isint
           THEN fail("pid not an int")
           ELSE LET pid == args[1].n
                    id == nextId + 1
                IN  /\ IF pid \notin PROCESSES
                       THEN /\ out' = KillUnknown(out, id)
                            /\ resp' = KillUnknown(<<>>, id)
                            /\ UNCHANGED proc
                       ELSE IF child[pid] # NoneRC
                       THEN /\ resp' = <<>>
                            /\ UNCHANGED <<out, proc>>
                       ELSE /\ proc' = [proc EXCEPT ![pid].signals = Append(@, SIGTERM)]
                            /\ out' = end(begin(out, id), id, 0)
                            /\ resp' = end(begin(<<>>, id), id, 0)
                    /\ Return(FALSE)
                    /\ UNCHANGED <<PROCESSES, nspawned, child, monVars, apVars>>

\* handle_register and handle_deregister
HandleRegister ==
    \E args \in PidArgLists :
        /\ Dispatch("register", args)
        /\ IF Len(args) < 1
           THEN fail("not enough arguments")
           ELSE IF ~args[1].isint
           THEN fail("exception decoding argument")
           ELSE LET id == nextId + 1
                IN  /\ out' = end(begin(out, id), id, 0)
                    /\ resp' = end(begin(<<>>, id), id, 0)
                    /\ REGISTERED' = register(REGISTERED, args[1].n)
                    /\ Return(FALSE)
                    /\ UNCHANGED <<LASTPS, apVars, procVars>>

HandleDeregister ==
    \E args \in PidArgLists :
        /\ Dispatch("deregister", args)
        /\ IF Len(args) < 1
           THEN fail("not enough arguments")
           ELSE IF ~args[1].isint
           THEN fail("exception decoding argument")
           ELSE LET id == nextId + 1
                IN  /\ out' = end(begin(out, id), id, 0)
                    /\ resp' = end(begin(<<>>, id), id, 0)
                    /\ REGISTERED' = deregister(REGISTERED, args[1].n)
                    /\ Return(FALSE)
                    /\ UNCHANGED <<LASTPS, apVars, procVars>>

\* handle_reset
HandleReset ==
    /\ Dispatch("reset", <<>>)
    /\ REGISTERED' = <<>>
    /\ LASTPS' = {}
    /\ AUTOPOLL' = 0
    /\ out' = end(begin(out, nextId + 1), nextId + 1, 0)
    /\ resp' = end(begin(<<>>, nextId + 1), nextId + 1, 0)
    /\ Return(FALSE)
    /\ UNCHANGED <<AUTOPOLL_TASK, apc, apCreated, procVars>>

\* handle_autopoll without the test of AUTOPOLL_TASK.
CreatesTaskUnguarded(armed, task) == armed = 0

\* Whether handle_autopoll goes on to create_task(autopoll(1.0)).
CreatesTask(armed, task) == armed = 0 /\ task = "None"

\* handle_autopoll
HandleAutopoll ==
    /\ Dispatch("autopoll", <<>>)
    /\ out' = end(begin(out, nextId + 1), nextId + 1, 0)
    /\ resp' = end(begin(<<>>, nextId + 1), nextId + 1, 0)
    /\ AUTOPOLL' = 1
    /\ IF CreatesTask(AUTOPOLL, AUTOPOLL_TASK)
       THEN /\ AUTOPOLL_TASK' = "task"
            /\ apc' = "created"
            /\ apCreated' = apCreated + 1
       ELSE UNCHANGED <<AUTOPOLL_TASK, apc, apCreated>>
    /\ Return(FALSE)
    /\ UNCHANGED <<monVars, procVars>>

\* handle_poll up to the await of ps.
HandlePoll ==
    /\ \E table \in Tables :
        /\ Request("poll", <<>>, table, table = host.table /\ ~host.changed)
        /\ host' = [host EXCEPT !.table = table, !.changed = FALSE]
    /\ pc' = "poll"
    /\ resp' = <<>>
    /\ UNCHANGED <<out, exitStatus, QUITTING, COMPLETED, TASKS, monVars, apVars, procVars>>

\* The lines handle_poll prints when poll() has returned None: none, for
\* len(output) in the log call raises TypeError before begin, and handle logs
\* that.
PollFailed(o, identifier) == o

\* ps ended with a non-zero status: poll() returns None and leaves LASTPS.
PollFail ==
    /\ pc = "poll"
    /\ out' = PollFailed(out, cur.id)
    /\ resp' = PollFailed(resp, cur.id)
    /\ cur' = [cur EXCEPT !.ps = "failed"]
    /\ Return(FALSE)
    /\ UNCHANGED <<stdin, mlArgs, host, nreq, nextId, monVars, apVars, procVars>>

\* The lines handle_poll prints for the diff that poll() returned.
PollReply(o, identifier, lines) == end(sendAll(begin(o, identifier), lines), identifier, 0)

\* ps ended with status 0: procmon_parse takes the subtree of REGISTERED,
\* replaces LASTPS and returns the diff.  A RecursionError in add() leaves
\* procmon_parse before LASTPS is replaced, and handle logs it.
PollOk ==
    /\ pc = "poll"
    /\ LET table == cur.table
           res == Results(table, REGISTERED)
           now == Keys(Snapshot(table, res.keys))
       IN  IF ~res.ok
           THEN /\ cur' = [cur EXCEPT !.ps = "raised"]
                /\ UNCHANGED <<out, resp, LASTPS>>
           ELSE /\ cur' = [cur EXCEPT !.ps = "ok"]
                /\ \E addOrder \in Orders(now \ Keys(LASTPS)),
                      remOrder \in Orders(Keys(LASTPS) \ now) :
                      LET lines == diff(table, res.keys, LASTPS, addOrder, remOrder)
                      IN  /\ out' = PollReply(out, cur.id, lines)
                          /\ resp' = PollReply(resp, cur.id, lines)
                          /\ LASTPS' = Snapshot(table, res.keys)
    /\ Return(FALSE)
    /\ UNCHANGED <<stdin, mlArgs, host, nreq, nextId, REGISTERED, apVars, procVars>>

\* handle_quit: begin, end, then cancel() of the autopoll task and the await
\* of it, which suspends unless the task is done already.
HandleQuit ==
    /\ Dispatch("quit", <<>>)
    /\ out' = end(begin(out, nextId + 1), nextId + 1, 0)
    /\ resp' = end(begin(<<>>, nextId + 1), nextId + 1, 0)
    /\ IF AUTOPOLL_TASK = "None"
       THEN /\ Return(TRUE)
            /\ UNCHANGED <<AUTOPOLL_TASK, apc>>
       ELSE IF apc = "dead"
       THEN /\ AUTOPOLL_TASK' = "None"
            /\ Return(TRUE)
            /\ UNCHANGED apc
       ELSE /\ apc' = "cancelling"
            /\ pc' = "quitwait"
            /\ UNCHANGED <<AUTOPOLL_TASK, QUITTING, COMPLETED, TASKS, exitStatus>>
    /\ UNCHANGED <<AUTOPOLL, apCreated, monVars, procVars>>

\* handle_quit after the await: AUTOPOLL_TASK = None, return True.
QuitResume ==
    /\ pc = "quitwait"
    /\ apc = "cancelled"
    /\ AUTOPOLL_TASK' = "None"
    /\ Return(TRUE)
    /\ UNCHANGED <<cur, stdin, mlArgs, host, nreq, nextId, out, resp, AUTOPOLL, apc,
                   apCreated, monVars, procVars>>

\* mainloop has returned 0: asyncio.run cancels what is left and the agent
\* exits with status 0.
Teardown ==
    /\ pc = "returned"
    /\ pc' = "exited"
    /\ exitStatus' = 0
    /\ proc' = CancelPumps(proc)
    /\ apc' = CancelAutopoll(apc)
    /\ UNCHANGED <<cur, stdin, mlArgs, host, nreq, nextId, out, resp, QUITTING, PROCESSES,
                   COMPLETED, TASKS, REGISTERED, LASTPS, AUTOPOLL, AUTOPOLL_TASK,
                   apCreated, nspawned, child>>

\* ------------------------------------------------------------ the children
ChunkSizes == {1, READ_SIZE}

\* The exit status asyncio reports for a child: minus the signal that ended
\* it, 0 for a child that ended by itself.
ExitCode(signals) == IF signals = <<>> THEN 0 ELSE -signals[Len(signals)]

\* The child ends (by itself, or by a signal sent to it) and asyncio's child
\* watcher records its status.
ChildExit(p) ==
    /\ pc # "exited"
    /\ proc[p].pump \in {"reading", "waiting"}
    /\ child[p] = NoneRC
    /\ child' = [child EXCEPT ![p] = ExitCode(proc[p].signals)]
    /\ UNCHANGED <<pc, cur, stdin, mlArgs, host, nreq, nextId, out, resp, exitStatus,
                   QUITTING, PROCESSES, COMPLETED, TASKS, nspawned, proc, monVars,
                   apVars>>

\* read_forever: reader.read(256) returned n > 0 bytes; monitor_process
\* prints them.
PumpOutput(p) ==
    /\ pc # "exited"
    /\ proc[p].pump = "reading"
    /\ proc[p].chunks < MaxChunks
    /\ \E n \in ChunkSizes :
        out' = print_output(out, proc[p].ident, p, 1, proc[p].islogin, n)
    /\ proc' = [proc EXCEPT ![p].chunks = @ + 1]
    /\ UNCHANGED <<pc, cur, stdin, mlArgs, host, nreq, nextId, resp, exitStatus, QUITTING,
                   PROCESSES, COMPLETED, TASKS, nspawned, child, monVars, apVars>>

\* cleanup() with its send before the await of Process.cleanup: the return
\* code is not set yet.
TerminateUnset(o, pid, rc) == send(o, Line("%terminate", NoId, pid, NoneRC))

\* cleanup() without its send.
TerminateMissing(o, pid, rc) == o

\* The end of Process.cleanup and of cleanup() for that pid: the writer is
\* closed, the read handler goes to TASKS, %terminate is sent.
Terminate(o, pid, rc) == send(o, Line("%terminate", NoId, pid, rc))

\* cleanup() with the pid left in PROCESSES while Process.cleanup runs.
delAfterCleanup(registry, pid) == registry

\* del PROCESSES[pid], which cleanup() does before it awaits Process.cleanup.
del(registry, pid) == registry \ {pid}

\* read_forever: the read returned no byte, or raised IOError.  The callback
\* appends the pid to COMPLETED and returns cleanup(), which the pump awaits:
\* cleanup() takes COMPLETED, deletes the pid from PROCESSES and calls
\* Process.cleanup, which sends SIGKILL (send_signal raises on a child that
\* has ended, and that is logged) and awaits the child.  The await suspends
\* unless the child has ended.
PumpEOF(p) ==
    /\ pc # "exited"
    /\ proc[p].pump = "reading"
    /\ COMPLETED' = <<>>
    /\ IF p \notin PROCESSES
       THEN /\ proc' = [proc EXCEPT ![p].pump = "done"]
            /\ UNCHANGED <<PROCESSES, TASKS, out>>
       ELSE /\ PROCESSES' = del(PROCESSES, p)
            /\ IF child[p] = NoneRC
               THEN /\ proc' = [proc EXCEPT ![p].pump = "waiting",
                                            ![p].cleanups = @ + 1,
                                            ![p].signals = Append(@, SIGKILL)]
                    /\ UNCHANGED <<TASKS, out>>
               ELSE /\ proc' = [proc EXCEPT ![p].pump = "done",
                                            ![p].cleanups = @ + 1,
                                            ![p].rc = child[p],
                                            ![p].writer = "closed"]
                    /\ TASKS' = Append(TASKS, p)
                    /\ out' = Terminate(out, p, child[p])
    /\ UNCHANGED <<pc, cur, stdin, mlArgs, host, nreq, nextId, resp, exitStatus, QUITTING,
                   nspawned, child, monVars, apVars>>

\* Process.cleanup after the await of the child, and the rest of cleanup().
PumpWaitDone(p) ==
    /\ pc # "exited"
    /\ proc[p].pump = "waiting"
    /\ child[p] # NoneRC
    /\ proc' = [proc EXCEPT ![p].pump = "done",
                            ![p].rc = child[p],
                            ![p].writer = "closed"]
    /\ TASKS' = Append(TASKS, p)
    /\ out' = Terminate(out, p, child[p])
    /\ UNCHANGED <<pc, cur, stdin, mlArgs, host, nreq, nextId, resp, exitStatus, QUITTING,
                   PROCESSES, COMPLETED, nspawned, child, monVars, apVars>>

\* -------------------------------------------------------- the autopoll task
\* The ps that the autopoll task starts will print table.
ApStartsPs(table) ==
    host' = [table |-> table,
             changed |-> host.changed \/ table # host.table,
             ap |-> table]

\* The task runs for the first time, or wakes from the sleep after an empty
\* diff: it calls poll() and is suspended in ps.
AutopollPoll ==
    /\ pc # "exited"
    /\ apc \in {"created", "sleep"}
    /\ apc' = "polling"
    /\ \E table \in Tables : ApStartsPs(table)
    /\ UNCHANGED <<pc, cur, stdin, mlArgs, nreq, nextId, out, resp, exitStatus, QUITTING,
                   COMPLETED, TASKS, AUTOPOLL, AUTOPOLL_TASK, apCreated,
                   monVars, procVars>>

\* ps failed: poll() returns None, len(output) raises TypeError, which the
\* task's `except Exception` logs: the task is over.
AutopollPollFail ==
    /\ pc # "exited"
    /\ apc = "polling"
    /\ apc' = "dead"
    /\ host' = [host EXCEPT !.ap = <<>>]
    /\ UNCHANGED <<pc, cur, stdin, mlArgs, nreq, nextId, out, resp, exitStatus, QUITTING,
                   COMPLETED, TASKS, AUTOPOLL, AUTOPOLL_TASK, apCreated,
                   monVars, procVars>>

\* The frame without its last line.
AutopollFrameNoEnd(o, identifier, lines) ==
    sendAll(send(o, Line("%autopoll", identifier, 0, 0)), lines)

\* The frame the task sends for a diff that is not empty.
AutopollFrame(o, identifier, lines) ==
    send(sendAll(send(o, Line("%autopoll", identifier, 0, 0)), lines),
         Line("%end", identifier, 0, 0))

\* ps succeeded.  An empty diff: sleep and poll again.  Otherwise the frame,
\* AUTOPOLL = 0, and the sleep until AUTOPOLL is set again.  A RecursionError
\* from procmon_parse ends the task like any other exception.
AutopollPollOk ==
    /\ pc # "exited"
    /\ apc = "polling"
    /\ host' = [host EXCEPT !.ap = <<>>]
    /\ LET table == host.ap
           res == Results(table, REGISTERED)
           now == Keys(Snapshot(table, res.keys))
       IN  IF ~res.ok
           THEN /\ apc' = "dead"
                /\ UNCHANGED <<out, nextId, LASTPS, AUTOPOLL>>
           ELSE \E addOrder \in Orders(now \ Keys(LASTPS)),
                   remOrder \in Orders(Keys(LASTPS) \ now) :
                   LET lines == diff(table, res.keys, LASTPS, addOrder, remOrder)
                   IN  /\ LASTPS' = Snapshot(table, res.keys)
                       /\ IF lines = <<>>
                          THEN /\ apc' = "sleep"
                               /\ UNCHANGED <<out, nextId, AUTOPOLL>>
                          ELSE /\ nextId' = nextId + 1
                               /\ out' = AutopollFrame(out, nextId + 1, lines)
                               /\ AUTOPOLL' = 0
                               /\ apc' = "paused"
    /\ UNCHANGED <<pc, cur, stdin, mlArgs, nreq, resp, exitStatus, QUITTING, COMPLETED,
                   TASKS, REGISTERED, AUTOPOLL_TASK, apCreated, procVars>>

\* `while not AUTOPOLL: sleep`: the task wakes with AUTOPOLL set and polls
\* again.
AutopollRearmed ==
    /\ pc # "exited"
    /\ apc = "paused"
    /\ AUTOPOLL # 0
    /\ apc' = "polling"
    /\ \E table \in Tables : ApStartsPs(table)
    /\ UNCHANGED <<pc, cur, stdin, mlArgs, nreq, nextId, out, resp, exitStatus, QUITTING,
                   COMPLETED, TASKS, AUTOPOLL, AUTOPOLL_TASK, apCreated,
                   monVars, procVars>>

\* The task after handle_quit's cancel(): CancelledError at its await,
\* logged and raised again.
AutopollCancelled ==
    /\ pc # "exited"
    /\ apc = "cancelling"
    /\ apc' = "cancelled"
    /\ UNCHANGED <<pc, cur, stdin, mlArgs, host, nreq, nextId, out, resp, exitStatus,
                   QUITTING, COMPLETED, TASKS, AUTOPOLL, AUTOPOLL_TASK, apCreated,
                   monVars, procVars>>

\* ------------------------------------------------------------ specification
Next ==
    \/ HandleEmpty
    \/ HandleUnknown
    \/ HandleRun
    \/ HandleLogin
    \/ SpawnOk
    \/ SpawnFail
    \/ HandleSend
    \/ HandleKill
    \/ HandleRegister
    \/ HandleDeregister
    \/ HandleReset
    \/ HandleAutopoll
    \/ HandlePoll
    \/ PollFail
    \/ PollOk
    \/ HandleQuit
    \/ QuitResume
    \/ Teardown
    \/ \E p \in Pids : ChildExit(p)
    \/ \E p \in Pids : PumpOutput(p)
    \/ \E p \in Pids : PumpEOF(p)
    \/ \E p \in Pids : PumpWaitDone(p)
    \/ AutopollPoll
    \/ AutopollPollFail
    \/ AutopollPollOk
    \/ AutopollRearmed
    \/ AutopollCancelled

Spec == Init /\ [][Next]_vars

\* mainloop alone, line by line.  A line is the sequence of its characters.
Chars == {"a", "\\"}
LineSet ==
    UNION {[1..n -> Chars] : n \in 1..MaxLineLen}

\* args[-1].endswith("\\")
EndsInBackslash(arg) == arg # <<>> /\ arg[Len(arg)] = "\\"

\* The continuation without the [:-1]: the backslash stays in the argument.
ContinueKeep(arg, line) == arg \o line

\* args[-1][:-1] + line
Continue(arg, line) == SubSeq(arg, 1, Len(arg) - 1) \o line

\* The branch of mainloop for a line that is not empty.
ReadLine ==
    /\ pc = "read"
    /\ stdin > 0
    /\ stdin' = stdin - 1
    /\ \E line \in LineSet :
        /\ mlArgs' = IF mlArgs # <<>> /\ EndsInBackslash(mlArgs[Len(mlArgs)])
                     THEN [mlArgs EXCEPT ![Len(mlArgs)] = Continue(@, line)]
                     ELSE Append(mlArgs, line)
        /\ cur' = [cur EXCEPT !.lines = Append(@, line)]
    /\ UNCHANGED <<pc, host, nreq, nextId, out, resp, exitStatus, QUITTING,
                   COMPLETED, TASKS, monVars, apVars, procVars>>

\* The branch for the empty line: handle(args), whose handler is left out
\* here, returns False and mainloop goes on with args = [], or the agent
\* exits in it.
ReadBlank ==
    /\ pc = "read"
    /\ stdin > 0
    /\ stdin' = stdin - 1
    /\ nreq' = nreq + 1
    /\ cur' = [NoReq EXCEPT !.cmd = "lines", !.args = mlArgs]
    /\ \E returns \in BOOLEAN :
        IF returns
        THEN /\ mlArgs' = <<>>
             /\ UNCHANGED <<pc, exitStatus>>
        ELSE /\ pc' = "exited"
             /\ exitStatus' = FAIL_EXIT
             /\ UNCHANGED mlArgs
    /\ UNCHANGED <<host, nextId, out, resp, QUITTING, COMPLETED, TASKS, monVars,
                   apVars, procVars>>

InitLines == Boot(MaxLines)

NextLines == ReadLine \/ ReadBlank

SpecLines == InitLines /\ [][NextLines]_vars

\* A run of process monitoring: the client sends register, deregister, reset,
\* autopoll and poll requests only.
InitMon == Boot(MaxMonReq)

NextMon ==
    \/ HandleRegister
    \/ HandleDeregister
    \/ HandleReset
    \/ HandleAutopoll
    \/ HandlePoll
    \/ PollFail
    \/ PollOk
    \/ AutopollPoll
    \/ AutopollPollFail
    \/ AutopollPollOk
    \/ AutopollRearmed

SpecMon == InitMon /\ [][NextMon]_vars

\* ------------------------------------------------- what the model rests on
\* COMPLETED is empty whenever a task is suspended: the callback that appends
\* to it returns cleanup(), which the pump awaits at once and which empties
\* the list before its first await.  So the cleanup() that handle calls has
\* nothing to do.
CompletedDrained == COMPLETED = <<>>

\* Every handle in TASKS is a read pump that has ended: the TASKS loop of
\* handle never suspends.
TasksDone == \A i \in 1..Len(TASKS) : proc[TASKS[i]].pump = "done"

TypeOK ==
    /\ pc \in {"read", "spawn", "poll", "quitwait", "returned", "exited"}
    /\ apc \in {"none", "created", "polling", "sleep", "paused", "dead",
                 "cancelling", "cancelled"}
    /\ AUTOPOLL \in {0, 1}
    /\ AUTOPOLL_TASK \in {"None", "task"}
    /\ PROCESSES \subseteq 1..nspawned
    /\ nreq + stdin \in {MaxReq, MaxMonReq}
    /\ stdin >= 0

\* ------------------------------------------------------------------ claims
\* The main task is between requests, or has ended.
AtRest == pc \in {"read", "returned", "exited"}

Ends(id) == {j \in 1..Len(out) : out[j].k = "end" /\ out[j].id = id}
Begins(id) == {j \in 1..Len(out) : out[j].k = "begin" /\ out[j].id = id}
Terminates(p) == {j \in 1..Len(out) : out[j].k = "%terminate" /\ out[j].pid = p}
Outputs(p) == {j \in 1..Len(out) : out[j].k = "%output" /\ out[j].pid = p}

\* C1: on stdout every `begin <id>` is the only begin of its id and, once the
\* handler has returned, is followed by exactly one `end <id> <status>`; this
\* for every verb and argument list, `kill` of a pid that is not in PROCESSES
\* included.
C1_BeginEndPaired ==
    \A i \in 1..Len(out) :
        out[i].k = "begin" =>
            /\ Begins(out[i].id) = {i}
            /\ \A j \in Ends(out[i].id) : j > i
            /\ AtRest => Cardinality(Ends(out[i].id)) = 1

\* C2: a request with a known verb that did not end in abort has been
\* answered, when its handler has returned, by begin <id>, payload lines, and
\* end <id> <status>, in that order and nothing else.
C2_FramedResponse ==
    (AtRest /\ cur.cmd \in Verbs /\ exitStatus # FAIL_EXIT) =>
        /\ Len(resp) >= 2
        /\ resp[1] = Line("begin", cur.id, 0, 0)
        /\ resp[Len(resp)].k = "end"
        /\ resp[Len(resp)].id = cur.id
        /\ \A i \in 2..(Len(resp) - 1) : resp[i].k \in {"pid", "+", "-", "~"}

\* C3, as claimed: when the agent has exited after a quit request, stdout
\* holds exactly one %terminate for every child that was spawned, after the
\* last %output of that pid.
C3_TerminateAlways ==
    (pc = "exited" /\ exitStatus = 0) =>
        \A p \in 1..nspawned :
            /\ Cardinality(Terminates(p)) = 1
            /\ \A t \in Terminates(p), i \in Outputs(p) : i < t

\* C3, amended: no child gets more than one %terminate, and no %output of
\* its pid follows it; a child whose read pump has not finished its teardown
\* has none; a child whose read pump has finished its teardown, QUITTING
\* being false, has exactly one.
C3_TerminateOnce ==
    \A p \in 1..nspawned :
        /\ Cardinality(Terminates(p)) <= 1
        /\ \A t \in Terminates(p), i \in Outputs(p) : i < t
        /\ proc[p].pump # "done" => Terminates(p) = {}
        /\ (proc[p].pump = "done" /\ ~QUITTING) => Cardinality(Terminates(p)) = 1

C3_Witness ==
    \E p \in 1..nspawned :
        /\ proc[p].pump = "done"
        /\ ~QUITTING
        /\ Outputs(p) # {}
        /\ Terminates(p) # {}

\* C4: a request whose verb is not one of the ten writes the one line
\* `abort unrecognized command`, no begin or end of its identifier, and ends
\* the agent with a non-zero status; nothing can happen after.
C4_UnknownVerbAborts ==
    (cur.cmd \notin Verbs /\ cur.cmd # "") =>
        /\ resp = <<AbortLine("unrecognized command")>>
        /\ out # <<>>
        /\ out[Len(out)] = AbortLine("unrecognized command")
        /\ Begins(cur.id) = {}
        /\ Ends(cur.id) = {}
        /\ pc = "exited"
        /\ exitStatus # 0
        /\ exitStatus # NoneRC
        /\ ~ENABLED Next

C4_Witness ==
    /\ cur.cmd = "frobnicate"
    /\ nreq > 1
    /\ \E p \in Pids : proc[p].pump = "cancelled"

\* A send or kill request that is well formed.
WellFormed(c) ==
    \/ c.cmd = "send" /\ Len(c.args) >= 2 /\ c.args[1].isint /\ c.args[2].b64
    \/ c.cmd = "kill" /\ Len(c.args) >= 1 /\ c.args[1].isint

\* C5: a send or kill request whose pid is an integer that is not a key of
\* PROCESSES prints begin <id> and end <id> 1, writes to no process, signals
\* none, leaves PROCESSES as it is, and the agent reads the next request.
C5_UnknownPid ==
    [][(nreq' = nreq + 1 /\ WellFormed(cur') /\ cur'.args[1].n \notin PROCESSES) =>
          /\ resp' = <<Line("begin", cur'.id, 0, 0), Line("end", cur'.id, 0, 1)>>
          /\ out' = out \o resp'
          /\ proc' = proc
          /\ PROCESSES' = PROCESSES
          /\ pc' = "read"
          /\ exitStatus' = NoneRC]_vars

\* A request with too few arguments for its verb, a pid that is no integer,
\* or a send payload that is no base64.
ArgError(c) ==
    \/ c.cmd \in {"login", "run", "kill", "register", "deregister"} /\ Len(c.args) < 1
    \/ c.cmd = "send" /\ Len(c.args) < 2
    \/ /\ c.cmd \in {"send", "kill", "register", "deregister"}
       /\ Len(c.args) >= 1
       /\ ~c.args[1].isint
    \/ c.cmd = "send" /\ Len(c.args) >= 2 /\ ~c.args[2].b64

\* C6: a request with an argument error prints one abort line, no begin or
\* end of its identifier, and the agent exits; for login, run, send, kill,
\* register and deregister alike.
C6_ArgErrorAborts ==
    ArgError(cur) =>
        /\ Len(resp) = 1
        /\ resp[1].k = "abort"
        /\ Begins(cur.id) = {}
        /\ Ends(cur.id) = {}
        /\ pc = "exited"
        /\ exitStatus = FAIL_EXIT

\* C7: when the ps of a poll request ends with a non-zero status, the
\* response is begin <id>, end <id> 1 and nothing between, and LASTPS is what
\* it was before the poll.
C7_PollFailure ==
    [][(pc = "poll" /\ cur'.ps = "failed") =>
          /\ resp' = <<Line("begin", cur.id, 0, 0), Line("end", cur.id, 0, 1)>>
          /\ LASTPS' = LASTPS]_vars

\* C8: while QUITTING is true no line is added to stdout, whoever sends it,
\* and QUITTING stays true.
C8_QuittingSilent == [][QUITTING => (out' = out /\ QUITTING')]_vars

\* A read pump has read data under QUITTING and no %output of it was printed.
C8_Witness ==
    /\ QUITTING
    /\ \E p \in Pids : proc[p].chunks > 0 /\ Outputs(p) = {}

\* C9: after a quit request stdout ends with begin <id>, end <id> 0 (nothing
\* is printed after them); when mainloop has returned the autopoll task has
\* ended and its handle is cleared; the agent exits with status 0.
C9_QuitSilent ==
    cur.cmd = "quit" =>
        /\ Len(out) >= 2
        /\ out[Len(out) - 1] = Line("begin", cur.id, 0, 0)
        /\ out[Len(out)] = Line("end", cur.id, 0, 0)
        /\ pc \in {"returned", "exited"} =>
               (apc \in {"none", "dead", "cancelled"} /\ AUTOPOLL_TASK = "None")
        /\ pc = "exited" => exitStatus = 0

\* C10: create_task(autopoll(1.0)) is called at most once in a run, whatever
\* the requests: an autopoll request that finds a task handle creates none.
C10_OneAutopollTask ==
    /\ apCreated <= 1
    /\ (apCreated = 0) = (apc = "none")

\* An autopoll request has armed again a task that had sent its frame.
C10_Witness ==
    /\ cur.cmd = "autopoll"
    /\ apCreated = 1
    /\ AUTOPOLL = 1
    /\ apc = "paused"
    /\ \E i \in 1..Len(out) : out[i].k = "%autopoll"

\* The %autopoll lines printed so far.
AutopollFrames(o) == {j \in 1..Len(o) : o[j].k = "%autopoll"}

\* C11: a step that prints an %autopoll frame is taken with AUTOPOLL true and
\* leaves it false, so that no frame follows a frame, or a reset, before an
\* autopoll request has set AUTOPOLL again.
C11_FrameOnlyArmed ==
    [][(AutopollFrames(out') # AutopollFrames(out)) =>
          (AUTOPOLL = 1 /\ AUTOPOLL' = 0)]_vars

\* The step dispatches `deregister p` right after a `register p` that was
\* handled.
RegisterThenDeregister ==
    /\ pc = "read"
    /\ cur.cmd = "register"
    /\ cur.args # <<>>
    /\ cur.args[1].isint
    /\ nreq' = nreq + 1
    /\ cur'.cmd = "deregister"
    /\ cur'.args = cur.args

\* The list R without pid.
Without(R, pid) == SelectSeq(R, LAMBDA x : x # pid)

\* C12, as claimed: `register p` and then `deregister p` leave REGISTERED as
\* the register request found it, p a member of it or not.
C12_RoundTripAlways ==
    [][RegisterThenDeregister => REGISTERED' = cur.R0]_vars

\* C12, amended: they leave REGISTERED as the register request found it when
\* p was no member of it, and with p taken out of it when p was a member.
C12_RoundTrip ==
    [][RegisterThenDeregister => REGISTERED' = Without(cur.R0, cur.args[1].n)]_vars

\* `register q`, `register p`, `deregister p` have been handled, p not q.
C12_Witness ==
    /\ pc = "read"
    /\ cur.cmd = "deregister"
    /\ REGISTERED # <<>>
    /\ cur.R0 = Append(REGISTERED, cur.args[1].n)

\* C13: a poll request that returns a diff right after a poll request that
\* returned one, the two ps having printed the same table and no ps started
\* between the start of the first and the end of the second another, returns
\* an empty diff: begin <id>, end <id> 0; whatever the autopoll task and its
\* ps do meanwhile.  (No request between the two: the registered set is the
\* same.)
C13_SecondPollEmpty ==
    [][(/\ pc = "poll"
        /\ cur.prevPoll # <<>>
        /\ cur.steady
        /\ host.table = cur.table
        /\ ~host.changed
        /\ cur'.ps = "ok") =>
          resp' = <<Line("begin", cur.id, 0, 0), Line("end", cur.id, 0, 0)>>]_vars

\* The pids of S and of the rows that descend from them.
RECURSIVE Closure(_, _)
Closure(rows, S) ==
    LET T == S \cup {rows[i].pid : i \in {j \in 1..Len(rows) : rows[j].ppid \in S}}
    IN  IF T = S THEN S ELSE Closure(rows, T)

\* The registered pids that the table shows running, and their descendants
\* that it shows running.
Subtree(table, R) ==
    Closure(ValidRows(table),
            {R[i] : i \in 1..Len(R)} \cap {ValidRows(table)[i].pid : i \in 1..Len(ValidRows(table))})

\* The pids of the `+` lines among lines.
Added(lines) == {lines[i].pid : i \in {j \in 1..Len(lines) : lines[j].k = "+"}}

\* C14: the first poll request after a reset request, when it returns a diff,
\* reports with a `+` line every running process of the subtree of the pids
\* registered since the reset; an autopoll task created before the reset may
\* be alive (no autopoll request has followed the reset).
C14_ResetThenPollAddsAll ==
    [][(pc = "poll" /\ cur.fresh /\ cur'.ps = "ok") =>
          Subtree(cur.table, REGISTERED) \subseteq Added(resp')]_vars

\* The rows of the subtree of R in the table: what a poll is to store.
RefSnapshot(table, R) == {Index(ValidRows(table), pid) : pid \in Subtree(table, R)}

\* The positions of the lines of kind k.
Kind(lines, k) == {i \in 1..Len(lines) : lines[i].k = k}

\* lines is the diff from snapshot P to snapshot C: one `+` line with the row
\* of C for every pid of C that is not in P, one `-` line for every pid of P
\* that is not in C, one `~` line with the row of C for every pid of both
\* whose rows differ, no pid twice, `+` before `-` before `~`.
IsDiff(lines, P, C) ==
    /\ \A i \in 1..Len(lines) : lines[i].k \in {"+", "-", "~"}
    /\ {lines[i].pid : i \in Kind(lines, "+")} = Keys(C) \ Keys(P)
    /\ {lines[i].pid : i \in Kind(lines, "-")} = Keys(P) \ Keys(C)
    /\ {lines[i].pid : i \in Kind(lines, "~")} =
           {pid \in Keys(C) \cap Keys(P) : RowOf(C, pid) # RowOf(P, pid)}
    /\ \A i, j \in 1..Len(lines) : lines[i].pid = lines[j].pid => i = j
    /\ \A i \in Kind(lines, "+"), j \in Kind(lines, "-") \cup Kind(lines, "~") : i < j
    /\ \A i \in Kind(lines, "-"), j \in Kind(lines, "~") : i < j
    /\ \A i \in Kind(lines, "+") \cup Kind(lines, "~") :
           lines[i].row = RowOf(C, lines[i].pid)

\* C15: a poll() that returns a diff, for a poll request or for the autopoll
\* task, returns the diff from LASTPS as it was to the subtree of REGISTERED
\* in the table that ps printed, and LASTPS is that subtree afterwards.
C15_DiffExact ==
    [][/\ (pc = "poll" /\ cur'.ps = "ok") =>
              /\ IsDiff(SubSeq(resp', 2, Len(resp') - 1), LASTPS,
                        RefSnapshot(cur.table, REGISTERED))
              /\ LASTPS' = RefSnapshot(cur.table, REGISTERED)
       /\ (apc = "polling" /\ apc' \in {"sleep", "paused"}) =>
              /\ IsDiff(IF out' = out THEN <<>>
                        ELSE SubSeq(out', Len(out) + 2, Len(out') - 1),
                        LASTPS, RefSnapshot(host.ap, REGISTERED))
              /\ LASTPS' = RefSnapshot(host.ap, REGISTERED)]_vars

\* A poll request has returned a diff with an addition, a removal and an
\* edit; the autopoll task has sent a frame.
C15_Witness ==
    /\ cur.cmd = "poll"
    /\ cur.ps = "ok"
    /\ Kind(resp, "+") # {}
    /\ Kind(resp, "-") # {}
    /\ Kind(resp, "~") # {}
    /\ AutopollFrames(out) # {}

\* The positions of the lines that the main task printed for request id.
Response(id) == {j \in 1..Len(out) : out[j].k \in {"begin", "end"} /\ out[j].id = id}

\* C16: a request is taken from stdin, and its handler called, only when the
\* main task is back in mainloop's read, COMPLETED empty; the step in which
\* handle returns for a request leaves COMPLETED and TASKS empty; the begin and
\* end lines of two requests never cross on stdout.
C16_Serialized ==
    [][/\ nreq' # nreq => (pc = "read" /\ COMPLETED = <<>>)
       /\ (pc' \in {"read", "returned"} /\ (pc # pc' \/ (nreq' # nreq /\ cur'.cmd # ""))) =>
              (COMPLETED' = <<>> /\ TASKS' = <<>>)
       /\ \A i, j \in 1..Len(out') :
              (out'[i].k = "begin" /\ out'[j].k = "begin" /\ i < j) =>
                  \A e \in {m \in 1..Len(out') :
                               out'[m].k = "end" /\ out'[m].id = out'[i].id} : e < j]_vars

\* A read pump ended and left its handle in TASKS, and a request that
\* followed has awaited it.
C16_Witness ==
    /\ pc = "read"
    /\ nreq >= 2
    /\ TASKS = <<>>
    /\ \E p \in Pids : proc[p].pump = "done" /\ Terminates(p) # {}
    /\ \E j \in Terminates(1) : out[Len(out)].k = "end" /\ j < Len(out)

\* The line without its last character.
Stripped(line) == SubSeq(line, 1, Len(line) - 1)

\* The last line of the argument that starts with line i: the first line
\* from i on that does not end in a backslash, or the last line there is.
RECURSIVE RunEnd(_, _)
RunEnd(lines, i) ==
    IF i = Len(lines) \/ ~EndsInBackslash(lines[i]) THEN i ELSE RunEnd(lines, i + 1)

\* Lines i..j as one argument.
RECURSIVE Joined(_, _, _)
Joined(lines, i, j) ==
    IF i = j THEN lines[i] ELSE Stripped(lines[i]) \o Joined(lines, i + 1, j)

\* The reference assembly of the lines from line i on.
RECURSIVE Assembled(_, _)
Assembled(lines, i) ==
    IF i > Len(lines) THEN <<>>
    ELSE <<Joined(lines, i, RunEnd(lines, i))>> \o Assembled(lines, RunEnd(lines, i) + 1)

\* C17: after every line the accumulator is the reference assembly of the
\* lines read since the last empty line, so that the arguments handed to
\* handle at the empty line are the reference assembly of the request's
\* lines; the accumulator is empty when the next request starts.
C17_Assembly ==
    [][/\ pc' = "read" => mlArgs' = Assembled(cur'.lines, 1)
       /\ nreq' # nreq => cur'.args = Assembled(cur.lines, 1)]_vars

\* A request of two arguments, the second put together from two lines, has
\* been handed to handle, and mainloop reads on.
C17_Witness ==
    /\ pc = "read"
    /\ cur.cmd = "lines"
    /\ Len(cur.args) = 2
    /\ cur.args[2] = <<"a", "a", "a">>
    /\ mlArgs = <<>>

\* C18: the poll() of the autopoll task that ends without a frame (ps failed,
\* or the diff is empty) leaves the task in its sleep, from which it polls
\* again; so that a change of the subtree is reported in the end.
C18_TaskSurvives ==
    [][(/\ apc = "polling"
        /\ apc' \notin {"polling", "cancelling", "cancelled"}
        /\ AutopollFrames(out') = AutopollFrames(out)) =>
          apc' = "sleep"]_vars

\* The kind of the line that ends the frame that a line of kind k begins, and
\* the kinds of the lines of such a frame.
Closer(k) == IF k = "begin" THEN "end" ELSE "%end"
Payload(k) ==
    IF k = "begin" THEN {"pid", "+", "-", "~"}
    ELSE IF k = "%output" THEN {"data"}
    ELSE {"+", "-", "~"}

\* The positions after i of the lines that end the frame begun at i.
Closers(i) ==
    {j \in (i + 1)..Len(out) : out[j].k = Closer(out[i].k) /\ out[j].id = out[i].id}

\* C19: on stdout, between a line that begins a frame (begin, %output,
\* %autopoll) and the first line after it that ends it (end, %end, of the
\* same identifier) there are only payload lines of that kind of frame; an
\* %output or %autopoll frame is never left open.
C19_FramesWhole ==
    \A i \in 1..Len(out) :
        out[i].k \in {"begin", "%output", "%autopoll"} =>
            /\ out[i].k # "begin" => Closers(i) # {}
            /\ \A j \in Closers(i) :
                   (\A m \in Closers(i) : j <= m) =>
                       \A n \in (i + 1)..(j - 1) : out[n].k \in Payload(out[i].k)

\* stdout holds an %output frame of a read pump that is still reading and,
\* after it, an %autopoll frame.
C19_Witness ==
    \E p \in Pids :
        /\ proc[p].pump = "reading"
        /\ \E i \in Outputs(p), j \in AutopollFrames(out) : i < j

\* C20: Process.cleanup is called at most once for a child, whether cleanup()
\* is entered from the read pump or from handle; at most one %terminate line
\* names its pid, and the return code in that line is set: it is the status
\* the child ended with.
C20_TornDownOnce ==
    \A p \in Pids :
        /\ proc[p].cleanups <= 1
        /\ Cardinality(Terminates(p)) <= 1
        /\ \A t \in Terminates(p) :
               /\ out[t].v # NoneRC
               /\ out[t].v = child[p]
               /\ out[t].v = proc[p].rc

\* A child was killed by its Process.cleanup, which waited for it; while it
\* waited a send request for the pid was handled (answered with status 1,
\* the pid being out of PROCESSES) and handle entered cleanup(); then the
\* %terminate was printed.
C20_Witness ==
    \E p \in Pids :
        /\ proc[p].cleanups = 1
        /\ proc[p].signals = <<SIGKILL>>
        /\ cur.cmd = "send"
        /\ Len(cur.args) = 2
        /\ cur.args[1].n = p
        /\ \E t \in Terminates(p) :
               /\ out[t].v = -SIGKILL
               /\ out[t - 1] = Line("end", cur.id, 0, 1)

\* C21: a Process in PROCESSES has not begun teardown: its Process.cleanup
\* has not been called, its writer is open and no %terminate names its pid.
\* A pid that enters PROCESSES was never there before, and a send or kill
\* request writes to or signals only a Process that is in PROCESSES.
C21_RegisteredNotTornDown ==
    /\ [](\A p \in PROCESSES :
             /\ proc[p].cleanups = 0
             /\ proc[p].writer = "open"
             /\ Terminates(p) = {})
    /\ [][\A p \in Pids :
             /\ p \in PROCESSES' \ PROCESSES => proc[p] = NoProc
             /\ (\/ proc'[p].written # proc[p].written
                 \/ /\ Len(proc'[p].signals) > Len(proc[p].signals)
                    /\ proc'[p].signals[Len(proc'[p].signals)] = SIGTERM)
                    => p \in PROCESSES /\ proc[p].cleanups = 0]_vars

\* Process.cleanup of a child has sent SIGKILL and waits for the child, the
\* pid is out of PROCESSES and the writer still open; a kill request for the
\* pid was handled meanwhile and sent no signal: it printed begin alone.
C21_Witness ==
    \E p \in Pids :
        /\ p \notin PROCESSES
        /\ proc[p].pump = "waiting"
        /\ proc[p].writer = "open"
        /\ proc[p].signals = <<SIGKILL>>
        /\ cur.cmd = "kill"
        /\ Len(cur.args) = 1
        /\ cur.args[1].n = p
        /\ out # <<>>
        /\ out[Len(out)] = Line("begin", cur.id, 0, 0)

\* C22: for every table ps may print and every list of registered pids, the
\* extraction of the subtree returns (add() does not end in RecursionError,
\* also when a row is its own parent), and what it returns are the registered
\* pids that the table shows and their descendants.
C22_SubtreeTerminates ==
    \A table \in Tables :
        LET res == Results(table, REGISTERED)
        IN  /\ res.ok
            /\ {res.keys[i] : i \in 1..Len(res.keys)} = Subtree(table, REGISTERED)

====
